---- MODULE Spec2Model ----
(***************************************************************************)
(* Model of the Stripe Terminal connection service                         *)
(* (src/connectionService.js): the policy-driven reconnection state        *)
(* machine of class STCS, its asynchronous methods cut at every await,     *)
(* and the hardware adapter / key-value store it drives.                   *)
(***************************************************************************)
EXTENDS Bags, FiniteSets, Integers, Naturals, Sequences, TLC

\* ---------------------------------------------------------------- bounds
MaxTasks == 2

MaxBatch == 2

\* ------------------------------------------------------------- constants
NULL == "null"

PolicyAuto == "auto"

PolicyPersist == "persist"

PolicyManual == "manual"

PolicyPersistManual == "persist-manual"

Policies == {PolicyAuto, PolicyPersist, PolicyManual, PolicyPersistManual}

DesiredReaderAny == "any"

EventConnectionError == "connectionError"

EventPersistedReaderNotFound == "persistedReaderNotFound"

EventReadersDiscovered == "readersDiscovered"

EventReaderPersisted == "readerPersisted"

EventLog == "log"

\* policy values handed to the constructor, one of them not a policy
PolicyInputs == Policies \cup {"bogus"}

\* serial numbers of the readers in range
Serials == {"A", "B"}

\* discovery batches: sequences of distinct readers, strongest first
Batches == {b \in UNION {[1..n -> Serials] : n \in 0..MaxBatch} :
              \A i, j \in DOMAIN b : i # j => b[i] # b[j]}

VARIABLES policy, constructed, listeners, desiredReader, persisted,
          connected, scan, notify, tasks, trace, finished

\* finished is history, not program state, "off" where it is not kept
\* (Spec) and otherwise (SpecTracked): "disconnecting" / "stopping"
\* while the last public method invoked is a disconnect() / stop() still
\* running, "disconnect" / "stop" once it has completed with no public
\* method invoked since, "none" otherwise.
vars == <<policy, constructed, listeners, desiredReader, persisted,
          connected, scan, notify, tasks, trace, finished>>

\* --------------------------------------------------- effects of one step
\* trace holds what the last step did, in order: the handler that ran,
\* the events it emitted, the adapter and store calls it issued and the
\* promise of a public method it settled.
Op(n, a) == [k |-> "op", n |-> n, a |-> a]

Emit(n, a) == [k |-> "emit", n |-> n, a |-> a]

Call(n, a) == [k |-> "call", n |-> n, a |-> a]

Ret(n, a) == [k |-> "ret", n |-> n, a |-> a]

Task(op, pc, arg) == [op |-> op, pc |-> pc, arg |-> arg]

One(t) == SetToBag({t})

Room == BagCardinality(tasks) < MaxTasks

Ready == constructed = "ok"

\* the history finished is kept only in behaviours that start with it on
Mark(v) == finished' = (IF finished = "off" THEN "off" ELSE v)

\* ------------------------------------------------------------ constructor
\* faulty variant: the validation at line 33 accepts anything
ValidPolicy_Any(p) == TRUE

ValidPolicy(p) == p \in Policies

Constructor ==
    /\ constructed = "no"
    /\ IF ValidPolicy(policy)
         THEN /\ constructed' = "ok"
              /\ listeners' = {"readersDiscovered", "unexpectedDisconnect"}
              /\ trace' = <<Op("constructor", <<policy>>),
                            Call("addReadersDiscoveredListener", <<>>),
                            Call("addDidDisconnectUnexpectedlyFromReaderListener", <<>>)>>
         ELSE /\ constructed' = "threw"
              /\ listeners' = {}
              /\ trace' = <<Op("constructor", <<policy>>),
                            Ret("throw", <<policy>>)>>
    /\ desiredReader' = NULL
    /\ UNCHANGED <<finished, policy, persisted, connected, scan, notify, tasks>>

InitProgram ==
    /\ policy \in PolicyInputs
    /\ constructed = "no"
    /\ listeners = {}
    /\ desiredReader = NULL
    /\ persisted \in Serials \cup {NULL}
    /\ connected \in Serials \cup {NULL}
    /\ scan = "none"
    /\ notify = FALSE
    /\ tasks = EmptyBag
    /\ trace = <<>>

Init == InitProgram /\ finished = "off"

\* the same program, with the history of completed teardowns kept
InitTracked == InitProgram /\ finished = "none"

\* ------------------------------------------------------- connect sequence
\* faulty variant: line 132-134 dropped, an Unset DesiredReader stays Unset
connectDesired_KeepUnset(serialNumber, desired) ==
    IF serialNumber # NULL THEN serialNumber ELSE desired

\* lines 129-134: the DesiredReader a connect(serialNumber) call leaves
connectDesired(serialNumber, desired) ==
    IF serialNumber # NULL THEN serialNumber
    ELSE IF desired = NULL THEN DesiredReaderAny
    ELSE desired

\* the synchronous head of connect(serialNumber): the log event and the
\* adapter query issued by getReader()
connectHead(serialNumber) ==
    <<Emit(EventLog, <<IF serialNumber # NULL THEN serialNumber ELSE "any">>),
      Call("getConnectedReader", <<>>)>>

connectTask == Task("connect", "getConnectedReader", NULL)

\* faulty variant: line 172 also accepts any connected reader when
\* DesiredReader is the wildcard
getReader_AnyMatches(reader, desired) ==
    IF reader # NULL /\ (reader = desired \/ desired = DesiredReaderAny)
      THEN reader ELSE NULL

\* faulty variant: line 172 compares the reader record, not its serial number,
\* with DesiredReader, which never matches
getReader_RecordCompare(reader, desired) == NULL

\* lines 170-175: the connected reader, if it is the desired one
getReader(reader, desired) ==
    IF reader # NULL /\ reader = desired THEN reader ELSE NULL

\* public connect(serialNumber), up to its first await
Connect(serialNumber) ==
    /\ Ready /\ Room
    /\ desiredReader' = connectDesired(serialNumber, desiredReader)
    /\ tasks' = tasks (+) One(connectTask)
    /\ trace' = <<Op("connect", <<serialNumber>>)>> \o connectHead(serialNumber)
    /\ UNCHANGED <<policy, constructed, listeners, persisted, connected, scan, notify>>
    /\ Mark("none")

\* getConnectedReader resolves: short-circuit, or go on to abort the scan
ConnectGetReader ==
    /\ BagIn(connectTask, tasks)
    /\ IF getReader(connected, desiredReader) # NULL
         THEN /\ tasks' = tasks (-) One(connectTask)
              /\ trace' = <<Op("connect.getReader", <<connected>>),
                            Ret("resolve", <<"connect">>)>>
         ELSE /\ tasks' = (tasks (-) One(connectTask))
                            (+) One(Task("connect", "abortDiscoverReaders", NULL))
              /\ trace' = <<Op("connect.getReader", <<connected>>),
                            Call("abortDiscoverReaders", <<>>)>>
    /\ UNCHANGED <<finished, policy, constructed, listeners, desiredReader, persisted,
                   connected, scan, notify>>

\* faulty variant: line 144 missing, the scan is requested right after the
\* abort and the connected reader is never disconnected
ConnectAbort_SkipsDisconnect ==
    /\ BagIn(Task("connect", "abortDiscoverReaders", NULL), tasks)
    /\ scan' = "none"
    /\ tasks' = (tasks (-) One(Task("connect", "abortDiscoverReaders", NULL)))
                  (+) One(Task("connect", "discoverReaders", NULL))
    /\ trace' = <<Op("connect.abort", <<>>), Call("discoverReaders", <<>>)>>
    /\ UNCHANGED <<finished, policy, constructed, listeners, desiredReader, persisted,
                   connected, notify>>

\* abortDiscoverReaders resolves: the scan is over, disconnect comes next
ConnectAbort ==
    /\ BagIn(Task("connect", "abortDiscoverReaders", NULL), tasks)
    /\ scan' = "none"
    /\ tasks' = (tasks (-) One(Task("connect", "abortDiscoverReaders", NULL)))
                  (+) One(Task("connect", "disconnectReader", NULL))
    /\ trace' = <<Op("connect.abort", <<>>), Call("disconnectReader", <<>>)>>
    /\ UNCHANGED <<finished, policy, constructed, listeners, desiredReader, persisted,
                   connected, notify>>

\* faulty variant: lines 145-148 missing, connect() ends after the
\* disconnect without starting a scan
ConnectDisconnect_NoScan ==
    /\ BagIn(Task("connect", "disconnectReader", NULL), tasks)
    /\ connected' = NULL
    /\ tasks' = tasks (-) One(Task("connect", "disconnectReader", NULL))
    /\ trace' = <<Op("connect.disconnect", <<>>), Ret("resolve", <<"connect">>)>>
    /\ UNCHANGED <<finished, policy, constructed, listeners, desiredReader, persisted,
                   scan, notify>>

\* disconnectReader resolves: nothing is connected, the scan is requested
ConnectDisconnect ==
    /\ BagIn(Task("connect", "disconnectReader", NULL), tasks)
    /\ connected' = NULL
    /\ tasks' = (tasks (-) One(Task("connect", "disconnectReader", NULL)))
                  (+) One(Task("connect", "discoverReaders", NULL))
    /\ trace' = <<Op("connect.disconnect", <<>>), Call("discoverReaders", <<>>)>>
    /\ UNCHANGED <<finished, policy, constructed, listeners, desiredReader, persisted,
                   scan, notify>>

\* discoverReaders resolves: the scan runs and connect() is done
ConnectDiscover ==
    /\ BagIn(Task("connect", "discoverReaders", NULL), tasks)
    /\ scan' = "connect"
    /\ tasks' = tasks (-) One(Task("connect", "discoverReaders", NULL))
    /\ trace' = <<Op("connect.discover", <<>>), Ret("resolve", <<"connect">>)>>
    /\ UNCHANGED <<finished, policy, constructed, listeners, desiredReader, persisted,
                   connected, notify>>

\* ----------------------------------------------------------- discover()
Discover ==
    /\ Ready /\ Room
    /\ tasks' = tasks (+) One(Task("discover", "abortDiscoverReaders", NULL))
    /\ trace' = <<Op("discover", <<>>), Call("abortDiscoverReaders", <<>>)>>
    /\ UNCHANGED <<policy, constructed, listeners, desiredReader, persisted,
                   connected, scan, notify>>
    /\ Mark("none")

DiscoverAbort ==
    /\ BagIn(Task("discover", "abortDiscoverReaders", NULL), tasks)
    /\ scan' = "none"
    /\ tasks' = (tasks (-) One(Task("discover", "abortDiscoverReaders", NULL)))
                  (+) One(Task("discover", "discoverReaders", NULL))
    /\ trace' = <<Op("discover.abort", <<>>), Call("discoverReaders", <<>>)>>
    /\ UNCHANGED <<finished, policy, constructed, listeners, desiredReader, persisted,
                   connected, notify>>

DiscoverDiscover ==
    /\ BagIn(Task("discover", "discoverReaders", NULL), tasks)
    /\ scan' = "discover"
    /\ tasks' = tasks (-) One(Task("discover", "discoverReaders", NULL))
    /\ trace' = <<Op("discover.discover", <<>>), Ret("resolve", <<"discover">>)>>
    /\ UNCHANGED <<finished, policy, constructed, listeners, desiredReader, persisted,
                   connected, notify>>

\* ------------------------------------------- discovery-result handling
\* faulty variant: lines 80-84 without the policy test, any batch is connected to
SelectTarget_Opportunistic(readers, desired, pol) ==
    IF \E i \in DOMAIN readers : readers[i] = desired
      THEN desired
    ELSE readers[1]

\* faulty variant: the branches of lines 74-88 swapped, the strongest reader wins
\* over the desired one
SelectTarget_StrongestFirst(readers, desired, pol) ==
    IF \/ pol = PolicyAuto
       \/ (pol = PolicyPersist /\ desired = NULL)
       \/ desired = DesiredReaderAny
      THEN readers[1]
    ELSE IF \E i \in DOMAIN readers : readers[i] = desired
      THEN desired
    ELSE NULL

\* lines 71-88: the reader onReadersDiscovered connects to, NULL for none
SelectTarget(readers, desired, pol) ==
    IF \E i \in DOMAIN readers : readers[i] = desired
      THEN desired
    ELSE IF \/ pol = PolicyAuto
            \/ (pol = PolicyPersist /\ desired = NULL)
            \/ desired = DesiredReaderAny
      THEN readers[1]
    ELSE NULL

\* faulty variant: lines 96-99 without the policy test
persistOnConnect_Always(pol) == TRUE

\* lines 96-99: a successful connection is saved under these policies
persistOnConnect(pol) == pol = PolicyPersist \/ pol = PolicyPersistManual

\* line 106: a failed connection is retried under these policies
retryOnError(pol) == pol # PolicyManual

\* values JavaScript treats as false in `!serialNumber` (line 187)
Falsy == {NULL, ""}

\* faulty variant: lines 187-191 without the test, every value is written
storeCall_AlwaysSet(serialNumber) == "setItem"

\* lines 187-191: the store call setPersistedReaderSerialNumber issues
storeCall(serialNumber) == IF serialNumber \in Falsy THEN "removeItem" ELSE "setItem"

connectReaderTask(target) == Task("connectReader", "connectReader", target)

\* faulty variant: lines 63-65 missing, only the empty batch is ignored
ignoresBatch_EmptyOnly(readers, desired) == Len(readers) = 0

\* lines 57-65: the batches the handler only re-emits
ignoresBatch(readers, desired) == Len(readers) = 0 \/ desired = NULL

\* the listener registered at line 45, run on a batch of the running scan
onReadersDiscovered(readers) ==
    /\ Ready /\ Room
    /\ scan # "none"
    /\ "readersDiscovered" \in listeners
    /\ IF ignoresBatch(readers, desiredReader)
         THEN /\ trace' = <<Op("onReadersDiscovered", readers),
                            Emit(EventReadersDiscovered, readers)>>
              /\ UNCHANGED <<desiredReader, tasks>>
         ELSE LET target == SelectTarget(readers, desiredReader, policy) IN
              IF target # NULL
                THEN /\ tasks' = tasks (+) One(connectReaderTask(target))
                     /\ trace' = <<Op("onReadersDiscovered", readers),
                                   Emit(EventReadersDiscovered, readers),
                                   Call("connectReader", <<target>>)>>
                     /\ UNCHANGED desiredReader
                ELSE /\ desiredReader' = connectDesired(NULL, desiredReader)
                     /\ tasks' = tasks (+) One(connectTask)
                     /\ trace' = <<Op("onReadersDiscovered", readers),
                                   Emit(EventReadersDiscovered, readers),
                                   Emit(EventPersistedReaderNotFound, readers)>>
                                  \o connectHead(NULL)
    /\ UNCHANGED <<finished, policy, constructed, listeners, persisted, connected, scan, notify>>

\* lines 93-102: connectReader resolved with the reader it connected
ConnectReaderThen ==
    \E target \in Serials :
      /\ BagIn(connectReaderTask(target), tasks)
      /\ connected' = target
      /\ desiredReader' = target
      /\ IF persistOnConnect(policy)
           THEN /\ tasks' = (tasks (-) One(connectReaderTask(target)))
                              (+) One(Task("setPersisted", storeCall(target), target))
                /\ trace' = <<Op("connectReader.then", <<target>>),
                              Call(storeCall(target), <<target>>)>>
           ELSE /\ tasks' = tasks (-) One(connectReaderTask(target))
                /\ trace' = <<Op("connectReader.then", <<target>>)>>
      /\ UNCHANGED <<finished, policy, constructed, listeners, persisted, scan, notify>>

\* lines 103-109: connectReader failed
ConnectReaderCatch ==
    \E target \in Serials :
      /\ BagIn(connectReaderTask(target), tasks)
      /\ IF retryOnError(policy)
           THEN /\ desiredReader' = connectDesired(NULL, desiredReader)
                /\ tasks' = (tasks (-) One(connectReaderTask(target)))
                              (+) One(connectTask)
                /\ trace' = <<Op("connectReader.catch", <<target>>),
                              Emit(EventConnectionError, <<target>>)>>
                             \o connectHead(NULL)
           ELSE /\ tasks' = tasks (-) One(connectReaderTask(target))
                /\ trace' = <<Op("connectReader.catch", <<target>>),
                              Emit(EventConnectionError, <<target>>)>>
                /\ UNCHANGED desiredReader
      /\ UNCHANGED <<finished, policy, constructed, listeners, persisted, connected, scan, notify>>

\* lines 186-193: the store write started at line 100 completes
SetPersistedDone ==
    \E v \in Serials :
      /\ BagIn(Task("setPersisted", storeCall(v), v), tasks)
      /\ persisted' = v
      /\ tasks' = tasks (-) One(Task("setPersisted", storeCall(v), v))
      /\ trace' = <<Op("setPersisted.done", <<v>>), Emit(EventReaderPersisted, <<v>>)>>
      /\ UNCHANGED <<finished, policy, constructed, listeners, desiredReader, connected,
                     scan, notify>>

\* ---------------------------------------------------------- disconnect()
\* faulty variant: lines 160-163 without the policy test
persistOnDisconnect_Always(pol) == TRUE

\* faulty variant: lines 160-163 test PolicyPersistManual only
persistOnDisconnect_ManualOnly(pol) == pol = PolicyPersistManual

\* lines 160-163: disconnect() forgets the reader under these policies
persistOnDisconnect(pol) == pol = PolicyPersist \/ pol = PolicyPersistManual

Disconnect ==
    /\ Ready /\ Room
    /\ IF persistOnDisconnect(policy)
         THEN /\ tasks' = tasks (+) One(Task("disconnect", storeCall(NULL), NULL))
              /\ trace' = <<Op("disconnect", <<>>), Call(storeCall(NULL), <<>>)>>
         ELSE /\ tasks' = tasks (+) One(Task("disconnect", "disconnectReader", NULL))
              /\ trace' = <<Op("disconnect", <<>>), Call("disconnectReader", <<>>)>>
    /\ UNCHANGED <<policy, constructed, listeners, desiredReader, persisted,
                   connected, scan, notify>>
    /\ Mark("disconnecting")

\* lines 164-167 after the await: the stored value is gone
DisconnectStore ==
    /\ BagIn(Task("disconnect", storeCall(NULL), NULL), tasks)
    /\ persisted' = NULL
    /\ desiredReader' = NULL
    /\ tasks' = (tasks (-) One(Task("disconnect", storeCall(NULL), NULL)))
                  (+) One(Task("disconnect", "disconnectReader", NULL))
    /\ trace' = <<Op("disconnect.store", <<>>), Emit(EventReaderPersisted, <<NULL>>),
                  Call("disconnectReader", <<>>)>>
    /\ UNCHANGED <<finished, policy, constructed, listeners, connected, scan, notify>>

DisconnectDone ==
    /\ BagIn(Task("disconnect", "disconnectReader", NULL), tasks)
    /\ connected' = NULL
    /\ tasks' = tasks (-) One(Task("disconnect", "disconnectReader", NULL))
    /\ trace' = <<Op("disconnect.done", <<>>), Ret("resolve", <<"disconnect">>)>>
    /\ UNCHANGED <<policy, constructed, listeners, desiredReader, persisted,
                   scan, notify>>
    /\ Mark(IF finished = "disconnecting" THEN "disconnect" ELSE finished)

\* --------------------------------------------------------------- start()
\* faulty variant: line 203 without its condition
startConnects_Always(pol, serialNumber) == TRUE

\* line 203: start() connects with what it read from the store
startConnects(pol, serialNumber) == pol = PolicyPersist \/ serialNumber # NULL

Start ==
    /\ Ready /\ Room
    /\ IF policy = PolicyAuto
         THEN /\ desiredReader' = connectDesired(NULL, desiredReader)
              /\ tasks' = tasks (+) One(connectTask)
              /\ trace' = <<Op("start", <<>>)>> \o connectHead(NULL)
                          \o <<Ret("resolve", <<"start">>)>>
       ELSE IF policy = PolicyPersist \/ policy = PolicyPersistManual
         THEN /\ tasks' = tasks (+) One(Task("start", "getItem", NULL))
              /\ trace' = <<Op("start", <<>>), Call("getItem", <<>>)>>
              /\ UNCHANGED desiredReader
       ELSE /\ trace' = <<Op("start", <<>>), Ret("resolve", <<"start">>)>>
            /\ UNCHANGED <<desiredReader, tasks>>
    /\ UNCHANGED <<policy, constructed, listeners, persisted, connected, scan, notify>>
    /\ Mark("none")

\* lines 202-205 after the await: the stored identifier has been read
StartRead ==
    /\ BagIn(Task("start", "getItem", NULL), tasks)
    /\ IF startConnects(policy, persisted)
         THEN /\ desiredReader' = connectDesired(persisted, desiredReader)
              /\ tasks' = (tasks (-) One(Task("start", "getItem", NULL)))
                            (+) One(connectTask)
              /\ trace' = <<Op("start.read", <<persisted>>)>> \o connectHead(persisted)
                          \o <<Ret("resolve", <<"start">>)>>
         ELSE /\ tasks' = tasks (-) One(Task("start", "getItem", NULL))
              /\ trace' = <<Op("start.read", <<persisted>>), Ret("resolve", <<"start">>)>>
              /\ UNCHANGED desiredReader
    /\ UNCHANGED <<finished, policy, constructed, listeners, persisted, connected, scan, notify>>

\* ---------------------------------------------------------------- stop()
Stop ==
    /\ Ready /\ Room
    /\ tasks' = tasks (+) One(Task("stop", "disconnectReader", NULL))
    /\ trace' = <<Op("stop", <<>>), Call("disconnectReader", <<>>)>>
    /\ UNCHANGED <<policy, constructed, listeners, desiredReader, persisted,
                   connected, scan, notify>>
    /\ Mark("stopping")

StopDone ==
    /\ BagIn(Task("stop", "disconnectReader", NULL), tasks)
    /\ connected' = NULL
    /\ listeners' = {}
    /\ tasks' = tasks (-) One(Task("stop", "disconnectReader", NULL))
    /\ trace' = <<Op("stop.done", <<>>), Ret("resolve", <<"stop">>)>>
    /\ UNCHANGED <<policy, constructed, desiredReader, persisted, scan, notify>>
    /\ Mark(IF finished = "stopping" THEN "stop" ELSE finished)

\* ------------------------------------------------ unexpected disconnect
\* the listener registered at line 48
onUnexpectedDisconnect ==
    /\ Ready /\ Room
    /\ notify
    /\ "unexpectedDisconnect" \in listeners
    /\ notify' = FALSE
    /\ desiredReader' = connectDesired(NULL, desiredReader)
    /\ tasks' = tasks (+) One(connectTask)
    /\ trace' = <<Op("onUnexpectedDisconnect", <<>>)>> \o connectHead(NULL)
    /\ UNCHANGED <<finished, policy, constructed, listeners, persisted, connected, scan>>

\* ------------------------------------------------ adapter and store side
\* the connected reader goes away; the adapter notifies its listener
ReaderDrops ==
    /\ Ready
    /\ connected # NULL
    /\ connected' = NULL
    /\ notify' = ("unexpectedDisconnect" \in listeners)
    /\ trace' = <<Op("adapter.readerDrops", <<connected>>)>>
    /\ UNCHANGED <<finished, policy, constructed, listeners, desiredReader, persisted,
                   scan, tasks>>

\* a scan is time-bounded and may end by itself
ScanEnds ==
    /\ scan # "none"
    /\ scan' = "none"
    /\ trace' = <<Op("adapter.scanEnds", <<>>)>>
    /\ UNCHANGED <<finished, policy, constructed, listeners, desiredReader, persisted,
                   connected, notify, tasks>>

\* an awaited adapter or store call fails: the method's promise rejects
\* (connectReader has its own handler, ConnectReaderCatch)
AwaitedCallFails ==
    \E t \in BagToSet(tasks) :
      /\ t.op # "connectReader"
      /\ tasks' = tasks (-) One(t)
      /\ trace' = <<Op("await.fails", <<t.op, t.pc>>), Ret("reject", <<t.op>>)>>
      /\ UNCHANGED <<finished, policy, constructed, listeners, desiredReader, persisted,
                     connected, scan, notify>>

\* ------------------------------------- persisted identifier, public API
\* what the store holds under the key once a call on it has completed
storeEffect(call, value, old) ==
    IF call = "removeItem" THEN NULL
    ELSE IF call = "setItem" THEN value
    ELSE old

\* arguments of a public setPersistedReaderSerialNumber call
PersistInputs == Serials \cup Falsy

setPersistedTask(v) == Task("setPersistedReaderSerialNumber", storeCall(v), v)

getPersistedTask == Task("getPersistedReaderSerialNumber", "getItem", NULL)

\* lines 186-191: setPersistedReaderSerialNumber(v) up to its await
SetPersisted(v) ==
    /\ Ready /\ Room
    /\ tasks' = tasks (+) One(setPersistedTask(v))
    /\ trace' = <<Op("setPersistedReaderSerialNumber", <<v>>),
                  Call(storeCall(v), IF v \in Falsy THEN <<>> ELSE <<v>>)>>
    /\ Mark("none")
    /\ UNCHANGED <<policy, constructed, listeners, desiredReader, persisted,
                   connected, scan, notify>>

\* line 192: the store call completed, the event goes out
SetPersistedReturn ==
    \E t \in BagToSet(tasks) :
      /\ t.op = "setPersistedReaderSerialNumber"
      /\ persisted' = storeEffect(t.pc, t.arg, persisted)
      /\ tasks' = tasks (-) One(t)
      /\ trace' = <<Op("setPersistedReaderSerialNumber.done", <<t.arg>>),
                    Emit(EventReaderPersisted, <<t.arg>>),
                    Ret("resolve", <<"setPersistedReaderSerialNumber">>)>>
      /\ UNCHANGED <<finished, policy, constructed, listeners, desiredReader,
                     connected, scan, notify>>

\* lines 181-182: getPersistedReaderSerialNumber() up to its await
GetPersisted ==
    /\ Ready /\ Room
    /\ tasks' = tasks (+) One(getPersistedTask)
    /\ trace' = <<Op("getPersistedReaderSerialNumber", <<>>), Call("getItem", <<>>)>>
    /\ Mark("none")
    /\ UNCHANGED <<policy, constructed, listeners, desiredReader, persisted,
                   connected, scan, notify>>

\* lines 182-183: the value read is returned
GetPersistedReturn ==
    /\ BagIn(getPersistedTask, tasks)
    /\ tasks' = tasks (-) One(getPersistedTask)
    /\ trace' = <<Op("getPersistedReaderSerialNumber.done", <<>>),
                  Ret("resolve", <<storeEffect("getItem", NULL, persisted)>>)>>
    /\ UNCHANGED <<finished, policy, constructed, listeners, desiredReader, persisted,
                   connected, scan, notify>>

\* the public store methods alone, on a constructed manager
NextStore ==
    \/ Constructor
    \/ \E v \in PersistInputs : SetPersisted(v)
    \/ SetPersistedReturn
    \/ GetPersisted
    \/ GetPersistedReturn
    \/ AwaitedCallFails

SpecStore == Init /\ [][NextStore]_vars

Next ==
    \/ Constructor
    \/ \E s \in Serials \cup {NULL} : Connect(s)
    \/ ConnectGetReader
    \/ ConnectAbort
    \/ ConnectDisconnect
    \/ ConnectDiscover
    \/ Discover
    \/ DiscoverAbort
    \/ DiscoverDiscover
    \/ \E readers \in Batches : onReadersDiscovered(readers)
    \/ ConnectReaderThen
    \/ ConnectReaderCatch
    \/ SetPersistedDone
    \/ Disconnect
    \/ DisconnectStore
    \/ DisconnectDone
    \/ Start
    \/ StartRead
    \/ Stop
    \/ StopDone
    \/ onUnexpectedDisconnect
    \/ ReaderDrops
    \/ ScanEnds
    \/ AwaitedCallFails

Spec == Init /\ [][Next]_vars

\* ------------------------------------------------- the search for reader A
\* one connect("A") on a fresh manager, then only the callbacks
SearchConnect == desiredReader = NULL /\ Connect("A")

BatchesWith(r) == {b \in Batches : \E i \in DOMAIN b : b[i] = r}

DeliverTarget == \E readers \in BatchesWith("A") : onReadersDiscovered(readers)

NextSearch ==
    \/ Constructor
    \/ SearchConnect
    \/ ConnectGetReader
    \/ ConnectAbort
    \/ ConnectDisconnect
    \/ ConnectDiscover
    \/ \E readers \in Batches : onReadersDiscovered(readers)
    \/ ConnectReaderThen
    \/ ConnectReaderCatch
    \/ SetPersistedDone

\* every adapter and store call of the sequence completes; batches holding
\* A keep being delivered while a scan runs; connectReader does not fail
\* forever
FairSearch ==
    /\ WF_vars(ConnectGetReader)
    /\ WF_vars(ConnectAbort)
    /\ WF_vars(ConnectDisconnect)
    /\ WF_vars(ConnectDiscover)
    /\ WF_vars(SetPersistedDone)
    /\ SF_vars(DeliverTarget)
    /\ SF_vars(ConnectReaderThen)

SpecSearch == Init /\ [][NextSearch]_vars /\ FairSearch

SpecTracked == InitTracked /\ [][Next]_vars

\* ------------------------------------------------- reading a step's trace
Ran(tr, n) == Len(tr) > 0 /\ tr[1].k = "op" /\ tr[1].n = n

Did(tr, k, n) == \E i \in DOMAIN tr : tr[i].k = k /\ tr[i].n = n

DidWith(tr, k, n, a) == \E i \in DOMAIN tr : tr[i] = [k |-> k, n |-> n, a |-> a]

Calls(tr) == {tr[i].n : i \in {j \in DOMAIN tr : tr[j].k = "call"}}

Range(f) == {f[i] : i \in DOMAIN f}

\* the step restarted the connect sequence with no identifier
Restarted(tr) ==
    /\ DidWith(tr, "emit", EventLog, <<"any">>)
    /\ Did(tr, "call", "getConnectedReader")
    /\ CopiesIn(connectTask, tasks') = CopiesIn(connectTask, tasks) + 1

StoreNames == {"getItem", "setItem", "removeItem"}

\* ------------------------------------------------------------------- C1
\* C1: with a policy other than Auto and DesiredReader a specific reader A,
\* a non-empty batch without A causes no connectReader call: the handler
\* emits persistedReaderNotFound with the batch, restarts the connect
\* sequence and leaves DesiredReader equal to A.
C1_Step ==
    (/\ Ran(trace', "onReadersDiscovered")
     /\ policy \in {PolicyPersist, PolicyPersistManual, PolicyManual}
     /\ desiredReader \in Serials
     /\ Len(trace'[1].a) > 0
     /\ desiredReader \notin Range(trace'[1].a))
    => /\ ~Did(trace', "call", "connectReader")
       /\ DidWith(trace', "emit", EventPersistedReaderNotFound, trace'[1].a)
       /\ Restarted(trace')
       /\ desiredReader' = desiredReader

C1_AbsentReaderNotConnected == [][C1_Step]_vars

C1_Witness ==
    /\ Ran(trace, "onReadersDiscovered")
    /\ policy = PolicyPersist
    /\ desiredReader = "A"
    /\ trace[1].a = <<"B">>
    /\ Did(trace, "emit", EventPersistedReaderNotFound)

\* ------------------------------------------------------------------- C2
\* C2: on a non-empty batch with DesiredReader set, connectReader targets
\* the reader equal to DesiredReader when the batch holds it (any policy),
\* and otherwise the first reader when policy is Auto or DesiredReader is
\* Any; when connectReader succeeds DesiredReader is the connected reader.
C2_Step ==
    /\ (/\ Ran(trace', "onReadersDiscovered")
        /\ Len(trace'[1].a) > 0
        /\ desiredReader # NULL)
       => /\ desiredReader \in Range(trace'[1].a)
               => /\ DidWith(trace', "call", "connectReader", <<desiredReader>>)
                  /\ tasks' = tasks (+) One(connectReaderTask(desiredReader))
          /\ (/\ desiredReader \notin Range(trace'[1].a)
              /\ (policy = PolicyAuto \/ desiredReader = DesiredReaderAny))
               => /\ DidWith(trace', "call", "connectReader", <<trace'[1].a[1]>>)
                  /\ tasks' = tasks (+) One(connectReaderTask(trace'[1].a[1]))
    /\ Ran(trace', "connectReader.then")
       => /\ desiredReader' = trace'[1].a[1]
          /\ connected' = desiredReader'
          /\ BagIn(connectReaderTask(desiredReader'), tasks)

C2_TargetSelection == [][C2_Step]_vars

C2_Witness ==
    /\ Ran(trace, "onReadersDiscovered")
    /\ policy = PolicyAuto
    /\ desiredReader = DesiredReaderAny
    /\ trace[1].a = <<"A", "B">>
    /\ DidWith(trace, "call", "connectReader", <<"A">>)

\* ------------------------------------------------------------------- C3
\* C3: under Persist, when disconnect() gets past its store removal both
\* DesiredReader and the persisted value are none, and its completion
\* changes neither; a start() that then reads none from the store calls
\* connect with no identifier, so an Unset DesiredReader becomes Any and
\* no reader identifier comes out of the store.
C3_Step ==
    policy = PolicyPersist =>
      /\ Ran(trace', "disconnect") => Calls(trace') = {"removeItem"}
      /\ Ran(trace', "disconnect.store")
           => /\ desiredReader' = NULL
              /\ persisted' = NULL
              /\ DidWith(trace', "emit", EventReaderPersisted, <<NULL>>)
      /\ Ran(trace', "disconnect.done")
           => /\ desiredReader' = desiredReader
              /\ persisted' = persisted
      /\ (Ran(trace', "start.read") /\ persisted = NULL)
           => /\ Restarted(trace')
              /\ desiredReader' =
                   (IF desiredReader = NULL THEN DesiredReaderAny ELSE desiredReader)
              /\ persisted' = NULL

C4_Step ==
    /\ Ran(trace', "connect") => Calls(trace') = {"getConnectedReader"}
    /\ (/\ Ran(trace', "connect.getReader")
        /\ connected # NULL
        /\ connected = desiredReader)
       => /\ Calls(trace') = {}
          /\ DidWith(trace', "ret", "resolve", <<"connect">>)
          /\ tasks' = tasks (-) One(connectTask)
          /\ desiredReader' = desiredReader
          /\ persisted' = persisted
          /\ connected' = connected
          /\ scan' = scan

C4_ShortCircuit == [][C4_Step]_vars

C4_Witness ==
    /\ Ran(trace, "connect.getReader")
    /\ connected = "A"
    /\ desiredReader = "A"
    /\ DidWith(trace, "ret", "resolve", <<"connect">>)

\* ------------------------------------------------------------------- C5
\* C5: under every policy an unexpected-disconnect notification runs the
\* connect sequence with no identifier: DesiredReader becomes Any if it
\* was Unset and is otherwise unchanged, and unless the reader reported
\* connected equals DesiredReader the sequence issues abortDiscoverReaders,
\* then disconnectReader, then discoverReaders.
C5_Step ==
    /\ Ran(trace', "onUnexpectedDisconnect")
       => /\ Restarted(trace')
          /\ Calls(trace') = {"getConnectedReader"}
          /\ desiredReader' =
               (IF desiredReader = NULL THEN DesiredReaderAny ELSE desiredReader)
    /\ (Ran(trace', "connect.getReader")
        /\ ~(connected # NULL /\ connected = desiredReader))
       => /\ Calls(trace') = {"abortDiscoverReaders"}
          /\ BagIn(Task("connect", "abortDiscoverReaders", NULL), tasks')
    /\ Ran(trace', "connect.abort")
       => /\ Calls(trace') = {"disconnectReader"}
          /\ BagIn(Task("connect", "disconnectReader", NULL), tasks')
    /\ Ran(trace', "connect.disconnect")
       => /\ Calls(trace') = {"discoverReaders"}
          /\ BagIn(Task("connect", "discoverReaders", NULL), tasks')
    /\ Ran(trace', "connect.discover") => scan' = "connect"

C5_UnexpectedDisconnectReconnects == [][C5_Step]_vars

C5_Witness ==
    /\ Ran(trace, "onUnexpectedDisconnect")
    /\ policy = PolicyManual
    /\ desiredReader = "A"
    /\ BagIn(connectTask, tasks)

\* ------------------------------------------------------------------- C6
\* C6: start() under Auto calls connect with no identifier; under Persist
\* it reads the store and calls connect with what it read, found or not;
\* under PersistManual it calls connect only with an identifier it found
\* and otherwise issues no call and leaves DesiredReader alone; under
\* Manual it issues no adapter or store call and leaves DesiredReader alone.
C6_Step ==
    /\ Ran(trace', "start") =>
         /\ policy = PolicyAuto
              => /\ Restarted(trace')
                 /\ Calls(trace') = {"getConnectedReader"}
                 /\ desiredReader' =
                      (IF desiredReader = NULL THEN DesiredReaderAny ELSE desiredReader)
         /\ policy \in {PolicyPersist, PolicyPersistManual}
              => /\ Calls(trace') = {"getItem"}
                 /\ desiredReader' = desiredReader
         /\ policy = PolicyManual
              => /\ Calls(trace') = {}
                 /\ desiredReader' = desiredReader
                 /\ tasks' = tasks
    /\ Ran(trace', "start.read") =>
         /\ trace'[1].a = <<persisted>>
         /\ persisted # NULL
              => /\ desiredReader' = persisted
                 /\ DidWith(trace', "emit", EventLog, <<persisted>>)
                 /\ Calls(trace') = {"getConnectedReader"}
                 /\ BagIn(connectTask, tasks')
         /\ (persisted = NULL /\ policy = PolicyPersist)
              => /\ Restarted(trace')
                 /\ Calls(trace') = {"getConnectedReader"}
                 /\ desiredReader' =
                      (IF desiredReader = NULL THEN DesiredReaderAny ELSE desiredReader)
         /\ (persisted = NULL /\ policy = PolicyPersistManual)
              => /\ Calls(trace') = {}
                 /\ desiredReader' = desiredReader
                 /\ tasks' = tasks (-) One(Task("start", "getItem", NULL))

C6_StartByPolicy == [][C6_Step]_vars

C6_Witness ==
    /\ Ran(trace, "start.read")
    /\ policy = PolicyPersistManual
    /\ trace[1].a = <<NULL>>
    /\ desiredReader = NULL
    /\ tasks = EmptyBag

\* ------------------------------------------------------------------- C7
\* C7: under Auto and Manual no step reads, writes or removes the persisted
\* identifier or emits readerPersisted, and the stored value never changes.
C7_Step ==
    policy \in {PolicyAuto, PolicyManual}
      => /\ persisted' = persisted
         /\ Calls(trace') \cap StoreNames = {}
         /\ ~Did(trace', "emit", EventReaderPersisted)
         /\ \A t \in BagToSet(tasks') : t.pc \notin StoreNames

C7_StoreUntouched == [][C7_Step]_vars

C7_Witness ==
    /\ Ran(trace, "connectReader.then")
    /\ policy = PolicyAuto
    /\ desiredReader = "A"
    /\ persisted = "B"

\* ------------------------------------------------------------------- C8
\* C8: discover() leaves DesiredReader unchanged, and a batch of the scan
\* it started is only surfaced through readersDiscovered: the handler
\* issues no connectReader call and does not restart the connect sequence.
C8_Step ==
    /\ (\/ Ran(trace', "discover")
        \/ Ran(trace', "discover.abort")
        \/ Ran(trace', "discover.discover"))
       => desiredReader' = desiredReader
    /\ (Ran(trace', "onReadersDiscovered") /\ scan = "discover")
       => /\ trace' = <<Op("onReadersDiscovered", trace'[1].a),
                        Emit(EventReadersDiscovered, trace'[1].a)>>
          /\ tasks' = tasks
          /\ desiredReader' = desiredReader

C8_DiscoverOnlySurfaces == [][C8_Step]_vars

\* ------------------------------------------------------------------- C9
\* C9: when connectReader fails the handler emits connectionError with the
\* failure and leaves DesiredReader unchanged; under Auto, Persist and
\* PersistManual it restarts the connect sequence with no identifier, under
\* Manual it issues no further adapter call.
C9_Step ==
    Ran(trace', "connectReader.catch")
      => /\ DidWith(trace', "emit", EventConnectionError, trace'[1].a)
         /\ desiredReader' = desiredReader
         /\ policy # PolicyManual => Restarted(trace')
         /\ policy = PolicyManual => (Calls(trace') = {} /\ tasks' \sqsubseteq tasks)

C9_FailedConnect == [][C9_Step]_vars

\* ------------------------------------------------------------------ C10
\* C10: constructing with a value that is not a policy throws before any
\* adapter call: no listener is registered and no call is ever issued.
C10_InvalidPolicyThrows ==
    policy \notin Policies
      => /\ constructed \in {"no", "threw"}
         /\ listeners = {}
         /\ tasks = EmptyBag
         /\ Calls(trace) = {}
         /\ scan = "none"
         /\ desiredReader = NULL

C10_Witness ==
    /\ constructed = "threw"
    /\ policy = "bogus"
    /\ DidWith(trace, "ret", "throw", <<"bogus">>)

\* ------------------------------------------------------------------ C11
\* C11: setPersistedReaderSerialNumber(id) with a non-empty id stores id,
\* with none or the empty string it removes the stored value; the
\* readerPersisted event carries the value passed and goes out only once
\* the store call has completed; getPersistedReaderSerialNumber() returns
\* what the store holds, so a read after a write returns id, or none.
C11_Step ==
    /\ Ran(trace', "setPersistedReaderSerialNumber")
       => /\ Calls(trace') =
               {IF trace'[1].a[1] \in Serials THEN "setItem" ELSE "removeItem"}
          /\ ~Did(trace', "emit", EventReaderPersisted)
          /\ persisted' = persisted
    /\ Ran(trace', "setPersistedReaderSerialNumber.done")
       => /\ persisted' =
               (IF trace'[1].a[1] \in Serials THEN trace'[1].a[1] ELSE NULL)
          /\ trace'[2] = Emit(EventReaderPersisted, trace'[1].a)
          /\ Calls(trace') = {}
    /\ Ran(trace', "getPersistedReaderSerialNumber.done")
       => /\ DidWith(trace', "ret", "resolve", <<persisted>>)
          /\ persisted' = persisted

C11_RoundTrip == [][C11_Step]_vars

C11_Witness ==
    /\ Ran(trace, "setPersistedReaderSerialNumber.done")
    /\ trace[1].a = <<"A">>
    /\ persisted = "A"
    /\ BagIn(getPersistedTask, tasks)

\* ------------------------------------------------------------------ C12
\* C12: at most one connectReader call issued by the manager is in flight
\* at any time, also when several batches arrive before an earlier call
\* has completed.
C12_OneConnectInFlight ==
    \A t, u \in BagToSet(tasks) :
      (t.op = "connectReader" /\ u.op = "connectReader")
        => (t = u /\ CopiesIn(t, tasks) = 1)

\* ------------------------------------------------------------------ C13
\* C13: whenever the manager issues discoverReaders, from connect() or
\* discover(), no scan is running and no earlier discoverReaders call is
\* still pending: an abort has completed since the last one.
C13_Step ==
    Did(trace', "call", "discoverReaders")
      => /\ scan = "none"
         /\ \A t \in BagToSet(tasks) : t.pc # "discoverReaders"

C13_AbortBeforeDiscover == [][C13_Step]_vars

\* ------------------------------------------------------------------ C14
\* C14: every discovery callback emits readersDiscovered with the raw batch
\* before any other event or call; on an empty batch or an Unset
\* DesiredReader it does nothing else: no call, no restart, no other
\* event, DesiredReader and the persisted value unchanged.
C14_Step ==
    Ran(trace', "onReadersDiscovered")
      => /\ trace'[2] = Emit(EventReadersDiscovered, trace'[1].a)
         /\ (Len(trace'[1].a) = 0 \/ desiredReader = NULL)
              => /\ Len(trace') = 2
                 /\ tasks' = tasks
                 /\ desiredReader' = desiredReader
                 /\ persisted' = persisted
                 /\ connected' = connected

C14_BatchSurfacedFirst == [][C14_Step]_vars

C14_Witness ==
    /\ Ran(trace, "onReadersDiscovered")
    /\ trace[1].a = <<"A", "B">>
    /\ desiredReader = NULL
    /\ policy = PolicyPersist
    /\ tasks = EmptyBag

\* ------------------------------------------------------------------ C15
\* C15: a connect() that does not short-circuit issues
\* abortDiscoverReaders, then disconnectReader, then discoverReaders, each
\* in the step in which the previous call resolved; it never issues
\* connectReader and resolves when the scan has been started, whatever is
\* connected; when abort or disconnect fails nothing further is issued and
\* connect() rejects.
ConnectAt(pc) == Task("connect", pc, NULL)

Enters(pc) == CopiesIn(ConnectAt(pc), tasks') > CopiesIn(ConnectAt(pc), tasks)

Leaves(pc) == CopiesIn(ConnectAt(pc), tasks') = CopiesIn(ConnectAt(pc), tasks) - 1

ConnectSteps == {"connect", "connect.getReader", "connect.abort",
                 "connect.disconnect", "connect.discover"}

C15_Step ==
    /\ (Ran(trace', "connect.getReader")
        /\ ~(connected # NULL /\ connected = desiredReader))
       => (Calls(trace') = {"abortDiscoverReaders"} /\ Enters("abortDiscoverReaders"))
    /\ Enters("abortDiscoverReaders")
       => (Ran(trace', "connect.getReader") /\ Leaves("getConnectedReader"))
    /\ Enters("disconnectReader")
       => /\ Ran(trace', "connect.abort")
          /\ Leaves("abortDiscoverReaders")
          /\ scan' = "none"
    /\ Enters("discoverReaders")
       => /\ Ran(trace', "connect.disconnect")
          /\ Leaves("disconnectReader")
          /\ connected' = NULL
    /\ Ran(trace', "connect.abort") => Calls(trace') = {"disconnectReader"}
    /\ Ran(trace', "connect.disconnect") => Calls(trace') = {"discoverReaders"}
    /\ (Len(trace') > 0 /\ trace'[1].n \in ConnectSteps)
       => ~Did(trace', "call", "connectReader")
    /\ Ran(trace', "connect.discover")
       => /\ DidWith(trace', "ret", "resolve", <<"connect">>)
          /\ Calls(trace') = {}
          /\ scan' = "connect"
          /\ connected' = connected
          /\ Leaves("discoverReaders")
    /\ (Ran(trace', "await.fails") /\ trace'[1].a[1] = "connect")
       => /\ DidWith(trace', "ret", "reject", <<"connect">>)
          /\ Calls(trace') = {}
          /\ tasks' = tasks (-) One(ConnectAt(trace'[1].a[2]))
          /\ scan' = scan /\ connected' = connected

C15_ConnectSequence == [][C15_Step]_vars

C15_Witness ==
    /\ Ran(trace, "connect.discover")
    /\ DidWith(trace, "ret", "resolve", <<"connect">>)
    /\ scan = "connect"
    /\ connected = NULL
    /\ desiredReader = "A"
    /\ tasks = EmptyBag

\* ------------------------------------------------------------------ C16
\* C16: under Auto and Manual disconnect() issues only disconnectReader and
\* leaves DesiredReader alone; no step ever returns a set DesiredReader to
\* Unset, and a later unexpected disconnect restarts the connect sequence
\* with the old DesiredReader.
C16_Step ==
    policy \in {PolicyAuto, PolicyManual}
      => /\ Ran(trace', "disconnect")
              => (Calls(trace') = {"disconnectReader"} /\ desiredReader' = desiredReader)
         /\ Ran(trace', "disconnect.done")
              => (Calls(trace') = {} /\ desiredReader' = desiredReader)
         /\ desiredReader # NULL => desiredReader' # NULL
         /\ (Ran(trace', "onUnexpectedDisconnect") /\ desiredReader # NULL)
              => (Restarted(trace') /\ desiredReader' = desiredReader)

C16_DisconnectKeepsDesired == [][C16_Step]_vars

C16_Witness ==
    /\ Ran(trace, "disconnect.done")
    /\ policy = PolicyAuto
    /\ desiredReader = "A"
    /\ connected = NULL
    /\ notify

\* ------------------------------------------------------------------ C20
\* C20: connect() short-circuits only when the connected reader's
\* identifier is exactly DesiredReader; with DesiredReader Any and a reader
\* connected it goes on to abortDiscoverReaders, disconnectReader (the
\* connection is torn down) and discoverReaders.
C20_Step ==
    /\ (Ran(trace', "connect") /\ trace'[1].a = <<NULL>>
        /\ desiredReader \in {NULL, DesiredReaderAny})
       => desiredReader' = DesiredReaderAny
    /\ (Ran(trace', "connect.getReader")
        /\ connected # NULL /\ desiredReader = DesiredReaderAny)
       => /\ trace' = <<Op("connect.getReader", <<connected>>),
                        Call("abortDiscoverReaders", <<>>)>>
          /\ Enters("abortDiscoverReaders")
    /\ (Ran(trace', "connect.getReader")
        /\ DidWith(trace', "ret", "resolve", <<"connect">>))
       => (connected \in Serials /\ desiredReader = connected)
    /\ Ran(trace', "connect.disconnect")
       => (connected' = NULL /\ Enters("discoverReaders"))

C20_ShortCircuitExactOnly == [][C20_Step]_vars

C20_Witness ==
    /\ Ran(trace, "connect.getReader")
    /\ policy = PolicyAuto
    /\ desiredReader = DesiredReaderAny
    /\ connected = "A"
    /\ Did(trace, "call", "abortDiscoverReaders")

\* ------------------------------------------------------------------ C18
\* C18: under Persist and PersistManual, once disconnect() has completed
\* and until the caller invokes a public method again, DesiredReader is
\* Unset and the persisted value is none, also when a connectReader call
\* or a store write started earlier completes afterwards.
C18_DisconnectIsFinal ==
    (finished = "disconnect" /\ policy \in {PolicyPersist, PolicyPersistManual})
      => (desiredReader = NULL /\ persisted = NULL)

\* ------------------------------------------------------------------ C19
\* C19: once stop() has completed and until the caller invokes a public
\* method again, no step issues an adapter call or a store write, also
\* when a connectReader call or a connect sequence was in flight when
\* stop() was called.
C19_Step ==
    (finished = "stop" /\ finished' = "stop")
      => /\ Calls(trace') = {}
         /\ persisted' = persisted

C19_StopIsFinal == [][C19_Step]_vars

\* ------------------------------------------------------------------ C17
\* a non-empty batch without the specific DesiredReader restarts the
\* connect sequence
SearchGoesOn(pols) ==
    (/\ Ran(trace', "onReadersDiscovered")
     /\ policy \in pols
     /\ desiredReader \in Serials
     /\ Len(trace'[1].a) > 0
     /\ desiredReader \notin Range(trace'[1].a))
    => (Restarted(trace') /\ desiredReader' = desiredReader)

Searching(pols) == policy \in pols /\ Ready /\ desiredReader = "A"

Found == connected = "A" /\ desiredReader = "A"

\* C17 as claimed: after connect(A) under any policy but Manual, with
\* calls completing, batches holding A delivered and connectReader
\* eventually succeeding, every non-empty batch without A restarts the
\* search and A is eventually connected with DesiredReader = A.
C17_SearchUnlessManual ==
    /\ [][SearchGoesOn(Policies \ {PolicyManual})]_vars
    /\ Searching(Policies \ {PolicyManual}) ~> Found

\* C17 amended: the same under Persist and PersistManual; the restarted
\* sequence issues a new discoverReaders call unless A is connected.
C17_SearchWhenPersisting ==
    /\ [][SearchGoesOn({PolicyPersist, PolicyPersistManual})]_vars
    /\ Searching({PolicyPersist, PolicyPersistManual}) ~> Found
    /\ (Searching({PolicyPersist, PolicyPersistManual})
        /\ Did(trace, "emit", EventPersistedReaderNotFound))
         ~> (Did(trace, "call", "discoverReaders") \/ Found)

C17_Witness ==
    /\ Ran(trace, "connectReader.then")
    /\ policy = PolicyPersist
    /\ Found
    /\ scan = "connect"
====
